---- MODULE Spec2Model ----
(***************************************************************************)
(* A model of src/main.py: the ball catching game (BallCatchingGame), its  *)
(* pose sources (HailoPoseEstimation, MockPoseEstimation) and the external *)
(* producer process (rpicam-hello) whose standard output the game reads.   *)
(*                                                                         *)
(* Time is kept in units of 1/Res second.  The origin of time is the       *)
(* moment BallCatchingGame.__init__ sets last_ball_time (line 207).        *)
(* Ball heights are kept in quarter pixels, since Ball.speed is 1.25.      *)
(***************************************************************************)
EXTENDS Integers, Sequences, FiniteSets

VARIABLES
  use_mock,            \* BallCatchingGame.use_mock
  game_duration,       \* BallCatchingGame.game_duration, in time units
  now,                 \* the wall clock, time.time()
  pc,                  \* where run() is
  running,             \* run(): running
  current_time,        \* run(): current_time of the iteration
  start_time,          \* BallCatchingGame.start_time
  last_ball_time,      \* BallCatchingGame.last_ball_time
  ball_interval,       \* BallCatchingGame.ball_interval, times 180
  last_pose_time,      \* run(): last_pose_time
  show_help,           \* run(): show_help
  advisory,            \* whether the iteration drew 'Stand in front of camera'
  score,               \* BallCatchingGame.score
  balls,               \* BallCatchingGame.balls
  current_left_hand,   \* BallCatchingGame.current_left_hand
  current_right_hand,  \* BallCatchingGame.current_right_hand
  keypoints,           \* run(): keypoints, what get_keypoints returned
  proc,                \* the producer process: "running" or "exited"
  fdPipe,              \* chunks written to the stdout pipe, not yet read
  pyBuf,               \* chunks read from the pipe, held by process.stdout
  emitted,             \* how many chunks the producer has written
  cleanups,            \* how many times pose_estimator.cleanup() was entered
  cleanupLog,          \* history: the signals cleanup() sent and its waits
  quitSeen,            \* history: a QUIT or K_q event was handled
  pollsInTick,         \* history: get_keypoints calls of the current iteration
  pollInfo,            \* history: what the last get_keypoints call met and did
  everCaught           \* history: how many balls had their caught flag set

vars == << use_mock, game_duration, now, pc, running, current_time, start_time,
           last_ball_time, ball_interval, last_pose_time, show_help, advisory,
           score, balls, current_left_hand, current_right_hand, keypoints,
           proc, fdPipe, pyBuf, emitted, cleanups, cleanupLog,
           quitSeen, pollsInTick, pollInfo, everCaught >>

gameVars == << running, current_time, last_ball_time, ball_interval,
               last_pose_time, show_help, advisory, score, balls,
               current_left_hand, current_right_hand >>

cfgVars == << use_mock, game_duration, start_time >>

producerVars == << proc, fdPipe, pyBuf, emitted >>

cleanupVars == << cleanups, cleanupLog >>

histVars == << quitSeen, pollsInTick, pollInfo, everCaught >>

-----------------------------------------------------------------------------
(* Bounds of the model *)

\* time units per second
Res == 1

\* how many seconds a stalled loop iteration takes
LongStall == 5

\* how many chunks the producer writes in a run
MaxEmit == 2

\* how many times cleanup() is called on one pose source
MaxCleanups == 2

-----------------------------------------------------------------------------
(* Program constants *)

CameraSize == 640
MockWidth == 800
MockHeight == 600
HailoScaleWidth == 800
HailoScaleHeight == 600
BallRadius == 20
BallSpeedQuarters == 5
HandWidth == 40
HandHeight == 20
CatchPoints == 10
WarmUpSeconds == 3
FinalScreenSeconds == 3
GraceSeconds == 5
AdvisorySeconds == 5
IntervalStart == 2
IntervalFloor == 1
IntervalSlope == 180
NumKeypoints == 17
LeftWrist == 9
RightWrist == 10
MinKeypoints == 11
MockSeparation == 50
MockWristY == 400

\* what get_keypoints returns: None, or a list of keypoints
None == [frame |-> FALSE, kps |-> << >>]
Frame(kps) == [frame |-> TRUE, kps |-> kps]

\* int(): truncation toward zero of a / b, b > 0
TruncDiv(a, b) == IF a >= 0 THEN a \div b ELSE -((-a) \div b)

screen_width == IF use_mock THEN MockWidth ELSE CameraSize
screen_height == IF use_mock THEN MockHeight ELSE CameraSize

default_left_hand == << screen_width \div 4, (screen_height * 4) \div 5 >>
default_right_hand == << (screen_width * 3) \div 4, (screen_height * 4) \div 5 >>

Max(a, b) == IF a >= b THEN a ELSE b

-----------------------------------------------------------------------------
(* The producer's output: newline-terminated text records on stdout *)

\* a pose detection's keypoints: NumKeypoints pairs, the wrists at 9 and 10
\* (Python indices; index i of the list is element i + 1 of the sequence)
MkKeypoints(n, lw, rw) ==
  [i \in 1..n |-> IF i = LeftWrist + 1 THEN lw
                  ELSE IF i = RightWrist + 1 THEN rw
                  ELSE << 0, 0 >>]

\* a detection whose left wrist is over the centre column near the top of the
\* picture, and whose right wrist is near the right edge of the picture, far
\* from every ball the model spawns
FrameOver == [kind |-> "poses",
              keypoints |-> MkKeypoints(NumKeypoints, << 256, 16 >>, << 600, 480 >>)]

\* a detection with ten keypoints only: index 9 exists, index 10 does not
FrameShort == [kind |-> "poses",
               keypoints |-> MkKeypoints(RightWrist, << 256, 16 >>, << 600, 480 >>)]

\* the lines the producer writes
Records ==
  { [kind |-> "viewfinder", keypoints |-> << >>],  \* contains "Viewfinder frame"
    [kind |-> "garbage", keypoints |-> << >>],     \* not JSON
    [kind |-> "badstruct", keypoints |-> << >>],   \* poses[0] has no 'keypoints'
    [kind |-> "nopose", keypoints |-> << >>],      \* no 'poses', or an empty list
    FrameOver,
    FrameShort }

\* what readline() returns at end of file: '' or the unterminated rest
EofLine == [kind |-> "eof", keypoints |-> << >>]
TruncatedLine == [kind |-> "garbage", keypoints |-> << >>]

NoRec == [kind |-> "none", keypoints |-> << >>]

\* a chunk of output: a whole line, the head of a line whose newline has not
\* been written yet, or the tail that completes such a head
LineChunk(r) == [part |-> "line", rec |-> r]
HeadChunk == [part |-> "head", rec |-> NoRec]
TailChunk(r) == [part |-> "tail", rec |-> r]

\* the unread output, oldest first
Unread == pyBuf \o fdPipe

PendingHead == Unread # << >> /\ Unread[Len(Unread)].part = "head"

\* how many complete lines a sequence of chunks holds (a tail completes a head)
CompleteLines(s) == Cardinality({i \in 1..Len(s) : s[i].part \in {"line", "tail"}})

\* the decoded text process.stdout holds after one more chunked read
RECURSIVE Merge(_)
Merge(s) ==
  IF Len(s) < 2 THEN s
  ELSE IF s[1].part = "head" /\ s[2].part = "tail"
       THEN << LineChunk(s[2].rec) >> \o Merge(SubSeq(s, 3, Len(s)))
       ELSE << s[1] >> \o Merge(Tail(s))

HasLine(buf) == buf # << >> /\ buf[1].part = "line"

\* The game looks at the pipe only inside get_keypoints, so what the producer
\* writes between two calls is modelled as written when the later call begins.
Emit(chunk) ==
  /\ proc = "running"
  /\ pc \in {"poll", "readline"}
  /\ emitted < MaxEmit
  /\ ~PendingHead
  /\ fdPipe' = Append(fdPipe, chunk)
  /\ emitted' = emitted + 1
  /\ UNCHANGED << proc, pyBuf >>

\* the producer writes one whole line
ProducerEmitLine(r) ==
  /\ Emit(LineChunk(r))
  /\ UNCHANGED << cfgVars, now, pc, gameVars, keypoints, cleanupVars, histVars >>

\* the producer writes the beginning of a line (its output is block buffered)
ProducerEmitHead ==
  /\ Emit(HeadChunk)
  /\ UNCHANGED << cfgVars, now, pc, gameVars, keypoints, cleanupVars, histVars >>

\* the producer writes the rest of the line it began
ProducerEmitTail(r) ==
  /\ proc = "running"
  /\ pc \in {"poll", "readline"}
  /\ PendingHead
  /\ fdPipe' = Append(fdPipe, TailChunk(r))
  /\ UNCHANGED << proc, pyBuf, emitted >>
  /\ UNCHANGED << cfgVars, now, pc, gameVars, keypoints, cleanupVars, histVars >>

\* the producer process ends: on its own, or on SIGTERM or SIGKILL; the game
\* learns of it only in get_keypoints and in cleanup's waits
ProducerExit ==
  /\ proc = "running"
  /\ pc \in {"poll", "readline", "wait", "wait_kill"}
  /\ proc' = "exited"
  /\ UNCHANGED << fdPipe, pyBuf, emitted >>
  /\ UNCHANGED << cfgVars, now, pc, gameVars, keypoints, cleanupVars, histVars >>

-----------------------------------------------------------------------------
(* HailoPoseEstimation.get_keypoints *)

\* lines 107-113: each keypoint scaled from the camera's 640x640 to 800x600
ScaleKeypoints(kps) ==
  [i \in 1..Len(kps) |->
     << TruncDiv(kps[i][1] * HailoScaleWidth, CameraSize),
        TruncDiv(kps[i][2] * HailoScaleHeight, CameraSize) >>]

\* lines 100-117 without their handlers: the value computed, or the exception
ParseLine(r) ==
  CASE r.kind = "garbage" -> [exc |-> "JSONDecodeError", val |-> None]
    [] r.kind = "badstruct" -> [exc |-> "KeyError", val |-> None]
    [] r.kind = "nopose" -> [exc |-> "none", val |-> None]
    [] r.kind = "poses" -> [exc |-> "none", val |-> Frame(ScaleKeypoints(r.keypoints))]

\* a variant of HandleLine in which a record that fails to parse is not caught
HandleLineUncaught(r) ==
  IF r.kind \in {"eof", "viewfinder"}
  THEN [raised |-> FALSE, val |-> None]
  ELSE LET p == ParseLine(r)
       IN  [raised |-> p.exc # "none", val |-> p.val]

\* lines 95-131: what get_keypoints makes of the line readline() returned.
\* JSONDecodeError is handled at line 118, any other exception at line 124,
\* and both paths reach 'return None' at line 126.
HandleLine(r) ==
  IF r.kind \in {"eof", "viewfinder"}
  THEN [raised |-> FALSE, val |-> None]
  ELSE LET p == ParseLine(r)
       IN  IF p.exc = "none"
           THEN [raised |-> FALSE, val |-> p.val]
           ELSE [raised |-> FALSE, val |-> None]

\* a variant of ReadLine that takes the newest complete line and drops the rest
ReadLineNewest(buf, fd, eof) ==
  LET all == Merge(buf \o fd)
      n == CompleteLines(all)
  IN  IF n > 0
      THEN [blocked |-> FALSE, line |-> all[n].rec,
            buf |-> SubSeq(all, n + 1, Len(all)), fd |-> << >>]
      ELSE IF eof
           THEN [blocked |-> FALSE,
                 line |-> IF all = << >> THEN EofLine ELSE TruncatedLine,
                 buf |-> << >>, fd |-> << >>]
           ELSE [blocked |-> TRUE, line |-> NoRec, buf |-> all, fd |-> << >>]

\* line 94, process.stdout.readline(): the next line the text stream holds;
\* when it holds no complete line it reads what the pipe has, and blocks while
\* that is still no complete line and the producer has the pipe open
ReadLine(buf, fd, eof) ==
  LET b1 == IF HasLine(buf) THEN buf ELSE Merge(buf \o fd)
      f1 == IF HasLine(buf) THEN fd ELSE << >>
  IN  IF HasLine(b1)
      THEN [blocked |-> FALSE, line |-> b1[1].rec, buf |-> Tail(b1), fd |-> f1]
      ELSE IF eof
           THEN [blocked |-> FALSE,
                 line |-> IF b1 = << >> THEN EofLine ELSE TruncatedLine,
                 buf |-> << >>, fd |-> << >>]
           ELSE [blocked |-> TRUE, line |-> NoRec, buf |-> b1, fd |-> << >>]

\* a variant of ProcessExited that never sees the producer gone
ProcessExitedNever(p) == FALSE

\* line 71: self.process.poll() is not None
ProcessExited(p) == p = "exited"

\* MockPoseEstimation.get_keypoints, for a mouse at column mouse_x
MockKeypoints(mouse_x) ==
  Frame(MkKeypoints(NumKeypoints, << mouse_x - MockSeparation, MockWristY >>,
                    << mouse_x + MockSeparation, MockWristY >>))

MouseXs == {0, MockWidth \div 2}

-----------------------------------------------------------------------------
(* Ball and BallCatchingGame.check_catches *)

\* pygame.Rect(left, top, width, height)
Rect(l, t, w, h) == [left |-> l, top |-> t, w |-> w, h |-> h]

\* a variant of colliderect that also counts rectangles that only touch
colliderectTouching(a, b) ==
  /\ a.left <= b.left + b.w
  /\ a.top <= b.top + b.h
  /\ a.left + a.w >= b.left
  /\ a.top + a.h >= b.top

\* pygame.Rect.colliderect: the rectangles share interior points
colliderect(a, b) ==
  /\ a.left < b.left + b.w
  /\ a.top < b.top + b.h
  /\ a.left + a.w > b.left
  /\ a.top + a.h > b.top

\* lines 232-243: the hitbox of a hand at pos
HandRect(pos) ==
  Rect(pos[1] - HandWidth \div 2, pos[2] - HandHeight \div 2, HandWidth, HandHeight)

\* lines 247-252: the bounding box of a ball; pygame.Rect truncates ball.y
BallRect(b) ==
  Rect(b.x - BallRadius, TruncDiv(b.y4 - 4 * BallRadius, 4),
       BallRadius * 2, BallRadius * 2)

\* line 253
Collides(b, left_hand_pos, right_hand_pos) ==
  \/ colliderect(BallRect(b), HandRect(left_hand_pos))
  \/ colliderect(BallRect(b), HandRect(right_hand_pos))

\* a variant of Catchable that forgets the caught flag
CatchableAgain(b, left_hand_pos, right_hand_pos) ==
  Collides(b, left_hand_pos, right_hand_pos)

\* lines 246-253: the ball is caught by this call
Catchable(b, left_hand_pos, right_hand_pos) ==
  ~b.caught /\ Collides(b, left_hand_pos, right_hand_pos)

\* check_catches: the balls after the call
check_catches(bs, left_hand_pos, right_hand_pos) ==
  [i \in 1..Len(bs) |->
     IF Catchable(bs[i], left_hand_pos, right_hand_pos)
     THEN [bs[i] EXCEPT !.caught = TRUE]
     ELSE bs[i]]

\* check_catches: the points the call adds
CatchScore(bs, left_hand_pos, right_hand_pos) ==
  CatchPoints * Cardinality({i \in 1..Len(bs) :
                               Catchable(bs[i], left_hand_pos, right_hand_pos)})

\* Ball.__init__
Ball(x) == [x |-> x, y4 |-> 0, caught |-> FALSE]

\* Ball.update: the ball after the call
BallUpdate(b) == IF b.caught THEN b ELSE [b EXCEPT !.y4 = @ + BallSpeedQuarters]

\* lines 356-360: every ball updated, those that left the screen removed
UpdateBalls(bs) ==
  LET moved == [i \in 1..Len(bs) |-> BallUpdate(bs[i])]
  IN  SelectSeq(moved, LAMBDA b : ~(b.y4 > 4 * screen_height))

\* spawn_ball: the columns the model draws random.randint from, the centre
\* column and the column one ball diameter to its left
SpawnXs == {screen_width \div 2 - 2 * BallRadius, screen_width \div 2}

-----------------------------------------------------------------------------
(* BallCatchingGame.run *)

Events == {"none", "QUIT", "K_q", "K_h"}

\* the match lengths the model configures, in seconds
GameDurations == {1, 2}

\* the iteration durations the model draws from: one time unit, or a stall
Durations == {1, LongStall * Res}

\* no iteration starts later than this
MaxNow ==
  (WarmUpSeconds + 2 * LongStall) * Res
    + (CHOOSE d \in GameDurations : \A e \in GameDurations : e <= d) * Res

\* line 304
Elapsed == current_time - start_time

\* a variant of TimeUp that compares with < where the code has <=
TimeUpStrict == Max(0, game_duration - Elapsed) < 0

\* lines 305 and 381: time_remaining <= 0
TimeUp == Max(0, game_duration - Elapsed) <= 0

\* a variant of NextInterval that grows with elapsed time
NextIntervalGrowing(elapsed) == IntervalStart * Res * IntervalSlope + elapsed

\* line 324: max(1.0, 2.0 - elapsed_time/180), times 180
NextInterval(elapsed) ==
  Max(IntervalFloor * Res * IntervalSlope,
      IntervalStart * Res * IntervalSlope - elapsed)

\* line 321: current_time - self.last_ball_time > self.ball_interval
SpawnDue(since, interval) == since * IntervalSlope > interval

\* lines 303-324: the clock is read, the events handled, a ball spawned
RunLoopTop(ev, x) ==
  /\ pc = "loop"
  /\ running
  /\ now <= MaxNow
  /\ current_time' = now
  /\ running' = (ev \notin {"QUIT", "K_q"})
  /\ quitSeen' = (quitSeen \/ ev \in {"QUIT", "K_q"})
  /\ show_help' = IF ev = "K_h" THEN ~show_help ELSE show_help
  /\ advisory' = FALSE
  /\ IF SpawnDue(now - last_ball_time, ball_interval)
     THEN /\ balls' = Append(balls, Ball(x))
          /\ last_ball_time' = now
          /\ ball_interval' = NextInterval(now - start_time)
     ELSE UNCHANGED << balls, last_ball_time, ball_interval >>
  /\ pc' = "poll"
  /\ pollsInTick' = 0
  /\ pollInfo' = [pollInfo EXCEPT !.sawExit = FALSE, !.took = FALSE,
                                  !.line = "none", !.left = 0, !.consumed = 0,
                                  !.afterMalformed = FALSE, !.raw = << >>]
  /\ UNCHANGED << cfgVars, now, last_pose_time, score, current_left_hand,
                  current_right_hand, keypoints, producerVars, cleanupVars,
                  everCaught >>

\* the history of get_keypoints calls, after a call: whether the producer had
\* exited when the call began, whether the call took a line and of which kind,
\* how many complete lines it left unread and how many it removed, whether it
\* raised, the keypoints of the record behind the value returned, and whether
\* any call so far returned a frame
Polled(sawExit, took, line, left, consumed, raised, raw) ==
  [sawExit |-> sawExit,
   exitPolls |-> IF sawExit /\ pollInfo.exitPolls < 2
                 THEN pollInfo.exitPolls + 1
                 ELSE pollInfo.exitPolls,
   took |-> took,
   line |-> line,
   left |-> left,
   consumed |-> consumed,
   raised |-> raised,
   afterMalformed |-> pollInfo.malformed,
   malformed |-> pollInfo.malformed \/ (took /\ line \in {"garbage", "badstruct"}),
   raw |-> raw,
   everFrame |-> pollInfo.everFrame \/ raw # << >>]

\* lines 94-126: readline() and what follows it
Readline(eof, exitedAtCall) ==
  LET r == ReadLine(pyBuf, fdPipe, eof)
      h == HandleLine(r.line)
  IN  /\ pyBuf' = r.buf
      /\ fdPipe' = r.fd
      /\ IF r.blocked
         THEN /\ pc' = "readline"
              /\ UNCHANGED << keypoints, pollInfo >>
         ELSE /\ pc' = IF h.raised THEN "crashed" ELSE "update"
              /\ keypoints' = IF h.raised THEN keypoints ELSE h.val
              /\ pollInfo' = Polled(exitedAtCall, r.line.kind # "eof", r.line.kind,
                                    CompleteLines(r.buf \o r.fd),
                                    CompleteLines(Unread) - CompleteLines(r.buf \o r.fd),
                                    h.raised,
                                    IF ~h.raised /\ h.val.frame
                                    THEN r.line.keypoints ELSE << >>)

\* line 327 in real mode: HailoPoseEstimation.get_keypoints
RunPollReal ==
  /\ pc = "poll"
  /\ ~use_mock
  /\ pollsInTick' = pollsInTick + 1
  /\ IF ProcessExited(proc)
     THEN \* lines 71-76: communicate() reads what is left and closes the pipes
          /\ keypoints' = None
          /\ pyBuf' = << >>
          /\ fdPipe' = << >>
          /\ pollInfo' = Polled(proc = "exited", FALSE, "none", 0,
                                CompleteLines(Unread), FALSE, << >>)
          /\ pc' = "update"
     ELSE IF fdPipe = << >> /\ proc # "exited"
          THEN \* lines 90-92: select() finds nothing to read
               /\ keypoints' = None
               /\ pollInfo' = Polled(proc = "exited", FALSE, "none",
                                     CompleteLines(Unread), 0, FALSE, << >>)
               /\ pc' = "update"
               /\ UNCHANGED << pyBuf, fdPipe >>
          ELSE Readline(proc = "exited", proc = "exited")
  /\ UNCHANGED << cfgVars, now, gameVars, proc, emitted, cleanupVars, quitSeen,
                  everCaught >>

\* line 94: a readline() that blocked returns, on more output or end of file
RunReadlineReturns ==
  /\ pc = "readline"
  /\ fdPipe # << >> \/ proc = "exited"
  /\ Readline(proc = "exited", FALSE)
  /\ UNCHANGED << cfgVars, now, gameVars, proc, emitted, cleanupVars, quitSeen,
                  pollsInTick, everCaught >>

\* line 327 in mock mode: MockPoseEstimation.get_keypoints
RunPollMock(mouse_x) ==
  /\ pc = "poll"
  /\ use_mock
  /\ pollsInTick' = pollsInTick + 1
  /\ keypoints' = MockKeypoints(mouse_x)
  /\ pollInfo' = Polled(FALSE, FALSE, "none", 0, 0, FALSE,
                        MockKeypoints(mouse_x).kps)
  /\ pc' = "update"
  /\ UNCHANGED << cfgVars, now, gameVars, producerVars, cleanupVars, quitSeen,
                  everCaught >>

\* a variant of UsableFrame that takes every non-empty frame
UsableFrameNonEmpty(k) == k.frame /\ k.kps # << >>

\* line 328: keypoints and len(keypoints) >= 11
UsableFrame(k) == k.frame /\ k.kps # << >> /\ Len(k.kps) >= MinKeypoints

\* lines 332-337: keypoints[9] and keypoints[10] exist; IndexError otherwise
WristsIndexable(k) == Len(k.kps) >= RightWrist + 1

\* lines 331-338: a wrist keypoint scaled to the game window
HandFrom(kp) ==
  << TruncDiv(kp[1] * screen_width, CameraSize),
     TruncDiv(kp[2] * screen_height, CameraSize) >>

\* a variant of NextHand that puts the hand at the origin when no frame came
NextHandReset(k, wrist, cur) ==
  IF UsableFrame(k) THEN HandFrom(k.kps[wrist + 1]) ELSE << 0, 0 >>

\* lines 328-338: the hand follows the wrist of a usable frame, else it stays
NextHand(k, wrist, cur) ==
  IF UsableFrame(k) THEN HandFrom(k.kps[wrist + 1]) ELSE cur

\* a variant of AdvisoryDue that ignores the H key
AdvisoryDueAlways(usable, absence, help) ==
  ~usable /\ absence > AdvisorySeconds * Res

\* lines 328 and 339: the branch that draws 'Stand in front of camera to play!'
AdvisoryDue(usable, absence, help) ==
  ~usable /\ absence > AdvisorySeconds * Res /\ help

\* lines 328-350: the hands follow the frame, the catches are checked
RunUpdate ==
  /\ pc = "update"
  /\ IF UsableFrame(keypoints) /\ ~WristsIndexable(keypoints)
     THEN \* lines 332-337 raise IndexError, which nothing in run() handles
          /\ pc' = "crashed"
          /\ UNCHANGED << last_pose_time, current_left_hand, current_right_hand,
                          advisory, balls, score, everCaught >>
     ELSE LET usable == UsableFrame(keypoints)
              left == NextHand(keypoints, LeftWrist, current_left_hand)
              right == NextHand(keypoints, RightWrist, current_right_hand)
              after == check_catches(balls, left, right)
          IN  /\ last_pose_time' = IF usable THEN current_time ELSE last_pose_time
              /\ current_left_hand' = left
              /\ current_right_hand' = right
              /\ advisory' = AdvisoryDue(usable, current_time - last_pose_time,
                                         show_help)
              /\ balls' = after
              /\ score' = score + CatchScore(balls, left, right)
              /\ everCaught' = everCaught
                   + Cardinality({i \in 1..Len(balls) :
                                    ~balls[i].caught /\ after[i].caught})
              /\ pc' = "advance"
  /\ UNCHANGED << cfgVars, now, running, current_time, last_ball_time,
                  ball_interval, show_help, keypoints, producerVars,
                  cleanupVars, quitSeen, pollsInTick, pollInfo >>

\* lines 355-382: the balls move, the frame is shown (which may raise),
\* clock.tick waits, the deadline is checked
RunAdvance(dt, shown) ==
  /\ pc = "advance"
  /\ balls' = UpdateBalls(balls)
  /\ IF shown
     THEN /\ now' = now + dt
          /\ running' = (running /\ ~TimeUp)
          /\ pc' = IF running' THEN "loop" ELSE "final"
     ELSE /\ pc' = "crashed"
          /\ UNCHANGED << now, running >>
  /\ UNCHANGED << cfgVars, current_time, last_ball_time, ball_interval,
                  last_pose_time, show_help, advisory, score, current_left_hand,
                  current_right_hand, keypoints, producerVars, cleanupVars,
                  histVars >>

\* lines 384-398: the final score is shown for three seconds
RunFinalScreen ==
  /\ pc = "final"
  /\ now' = now + FinalScreenSeconds * Res
  /\ pc' = "cleanup"
  /\ UNCHANGED << cfgVars, gameVars, keypoints, producerVars, cleanupVars,
                  histVars >>

-----------------------------------------------------------------------------
(* cleanup: run() line 401 *)

\* an entry of cleanupLog: what cleanup() did, when, and the producer's state
Logged(ev) == Append(cleanupLog, [ev |-> ev, proc |-> proc, at |-> now])

\* a variant of CleanupTerminate in which signalling a producer that is gone
\* raises an error that cleanup() lets through
CleanupTerminateLive ==
  /\ pc = "cleanup"
  /\ cleanups' = cleanups + 1
  /\ IF use_mock
     THEN /\ pc' = "done"
          /\ UNCHANGED cleanupLog
     ELSE /\ cleanupLog' = Logged("terminate")
          /\ pc' = IF proc = "exited" THEN "crashed" ELSE "wait"
  /\ UNCHANGED << cfgVars, now, gameVars, keypoints, producerVars, histVars >>

\* MockPoseEstimation.cleanup (line 182) does nothing; HailoPoseEstimation
\* .cleanup begins with process.terminate() (line 139), which sends nothing
\* to a producer that has exited; whatever lines 139-146 raise is handled at
\* line 148
CleanupTerminate ==
  /\ pc = "cleanup"
  /\ cleanups' = cleanups + 1
  /\ IF use_mock
     THEN /\ pc' = "done"
          /\ UNCHANGED cleanupLog
     ELSE /\ cleanupLog' = Logged("terminate")
          /\ pc' = "wait"
  /\ UNCHANGED << cfgVars, now, gameVars, keypoints, producerVars, histVars >>

\* line 141: process.wait(timeout=5) returns, the producer has exited
CleanupWaitReturns ==
  /\ pc = "wait"
  /\ proc = "exited"
  /\ cleanupLog' = Logged("returned")
  /\ pc' = "done"
  /\ UNCHANGED << cfgVars, now, gameVars, keypoints, producerVars, cleanups,
                  histVars >>

\* a variant of CleanupTimeout that gives up instead of killing
CleanupTimeoutGivesUp ==
  /\ pc = "wait"
  /\ proc = "running"
  /\ now' = now + GraceSeconds * Res
  /\ cleanupLog' = Logged("returned")
  /\ pc' = "done"
  /\ UNCHANGED << cfgVars, gameVars, keypoints, producerVars, cleanups,
                  histVars >>

\* lines 143-145: the wait timed out after five seconds, process.kill()
CleanupTimeout ==
  /\ pc = "wait"
  /\ proc = "running"
  /\ now' = now + GraceSeconds * Res
  /\ cleanupLog' = Append(cleanupLog,
                          [ev |-> "kill", proc |-> proc, at |-> now'])
  /\ pc' = "wait_kill"
  /\ UNCHANGED << cfgVars, gameVars, keypoints, producerVars, cleanups,
                  histVars >>

\* line 146: process.wait() returns once the killed producer is gone
CleanupKillReturns ==
  /\ pc = "wait_kill"
  /\ proc = "exited"
  /\ cleanupLog' = Logged("returned")
  /\ pc' = "done"
  /\ UNCHANGED << cfgVars, now, gameVars, keypoints, producerVars, cleanups,
                  histVars >>

-----------------------------------------------------------------------------
(* The specification *)

\* the state when run() is entered, for a mode and a match length
InitWith(mock, seconds) ==
  /\ use_mock = mock
  /\ game_duration = seconds * Res
  /\ start_time = IF use_mock THEN 0 ELSE WarmUpSeconds * Res
  /\ now = start_time
  /\ pc = "loop"
  /\ running = TRUE
  /\ current_time = start_time
  /\ last_ball_time = 0
  /\ ball_interval = IntervalStart * Res * IntervalSlope
  /\ last_pose_time = start_time
  /\ show_help = TRUE
  /\ advisory = FALSE
  /\ score = 0
  /\ balls = << >>
  /\ current_left_hand = default_left_hand
  /\ current_right_hand = default_right_hand
  /\ keypoints = None
  /\ proc = IF use_mock THEN "absent" ELSE "running"
  /\ fdPipe = << >>
  /\ pyBuf = << >>
  /\ emitted = 0
  /\ cleanups = 0
  /\ cleanupLog = << >>
  /\ quitSeen = FALSE
  /\ pollsInTick = 0
  /\ pollInfo = [sawExit |-> FALSE, exitPolls |-> 0, took |-> FALSE,
                 line |-> "none", left |-> 0, consumed |-> 0, raised |-> FALSE,
                 afterMalformed |-> FALSE, malformed |-> FALSE,
                 raw |-> << >>, everFrame |-> FALSE]
  /\ everCaught = 0

Init == \E mock \in BOOLEAN, seconds \in GameDurations : InitWith(mock, seconds)

CleanupNext ==
  \/ CleanupTerminate
  \/ CleanupWaitReturns
  \/ CleanupTimeout
  \/ CleanupKillReturns

GameNext ==
  \/ \E ev \in Events, x \in SpawnXs : RunLoopTop(ev, x)
  \/ RunPollReal
  \/ RunReadlineReturns
  \/ \E mouse_x \in MouseXs : RunPollMock(mouse_x)
  \/ RunUpdate
  \/ \E dt \in Durations, shown \in BOOLEAN : RunAdvance(dt, shown)
  \/ RunFinalScreen
  \/ CleanupNext

ProducerNext ==
  \/ \E r \in Records : ProducerEmitLine(r)
  \/ ProducerEmitHead
  \/ \E r \in Records : ProducerEmitTail(r)
  \/ ProducerExit

Next == GameNext \/ ProducerNext

Spec == Init /\ [][Next]_vars

\* SIGKILL cannot be caught or ignored: a killed producer exits
ProducerKilled ==
  /\ \E i \in 1..Len(cleanupLog) : cleanupLog[i].ev = "kill"
  /\ ProducerExit

\* The real-mode match of one second on which nobody asks to quit and showing a
\* frame never fails, with a producer free to write anything, to stall and to
\* exit. The game is a sequential program that takes its next step whenever
\* that step can be taken; nothing obliges the producer to take one.
LiveInit == InitWith(FALSE, 1)

LiveGameNext ==
  \/ \E ev \in {"none", "K_h"}, x \in SpawnXs : RunLoopTop(ev, x)
  \/ RunPollReal
  \/ RunReadlineReturns
  \/ RunUpdate
  \/ \E dt \in Durations : RunAdvance(dt, TRUE)
  \/ RunFinalScreen
  \/ CleanupNext

LiveNext == LiveGameNext \/ ProducerNext

SpecLive ==
  /\ LiveInit
  /\ [][LiveNext]_vars
  /\ WF_vars(LiveGameNext)
  /\ WF_vars(ProducerKilled)

\* The same match with a producer that never writes a line.
NoFrameGameNext ==
  \/ \E ev \in {"none", "K_h"}, x \in SpawnXs : RunLoopTop(ev, x)
  \/ RunPollReal
  \/ RunUpdate
  \/ \E dt \in Durations : RunAdvance(dt, TRUE)
  \/ RunFinalScreen
  \/ CleanupNext

NoFrameNext == NoFrameGameNext \/ ProducerExit

SpecNoFrame ==
  /\ LiveInit
  /\ [][NoFrameNext]_vars
  /\ WF_vars(NoFrameGameNext)
  /\ WF_vars(ProducerKilled)

\* cleanup() is called once more on the pose source, after a call returned
CleanupAgain ==
  /\ pc = "done"
  /\ cleanups < MaxCleanups
  /\ pc' = "cleanup"
  /\ UNCHANGED << cfgVars, now, gameVars, keypoints, producerVars, cleanupVars,
                  histVars >>

\* A one-second match in either mode, on which showing a frame never fails,
\* with a producer that writes nothing and may exit at any time, followed by
\* further calls of cleanup().
CleanupInit == \E mock \in BOOLEAN : InitWith(mock, 1)

CleanupGameNext ==
  \/ \E ev \in Events, x \in SpawnXs : RunLoopTop(ev, x)
  \/ RunPollReal
  \/ \E mouse_x \in MouseXs : RunPollMock(mouse_x)
  \/ RunUpdate
  \/ \E dt \in Durations : RunAdvance(dt, TRUE)
  \/ RunFinalScreen
  \/ CleanupNext
  \/ CleanupAgain

CleanupSpecNext == CleanupGameNext \/ ProducerExit

SpecCleanup == CleanupInit /\ [][CleanupSpecNext]_vars

-----------------------------------------------------------------------------
(* Properties *)

Min(a, b) == IF a <= b THEN a ELSE b

\* the width and the height of the intersection of two rectangles
OverlapW(a, b) == Min(a.left + a.w, b.left + b.w) - Max(a.left, b.left)
OverlapH(a, b) == Min(a.top + a.h, b.top + b.h) - Max(a.top, b.top)

\* the rectangles have interior points in common
InteriorOverlap(a, b) == OverlapW(a, b) > 0 /\ OverlapH(a, b) > 0

\* the rectangles share an edge or a corner and no interior point
TouchOnly(a, b) ==
  /\ OverlapW(a, b) >= 0
  /\ OverlapH(a, b) >= 0
  /\ ~InteriorOverlap(a, b)

HandRects == {HandRect(current_left_hand), HandRect(current_right_hand)}

CaughtCount(bs) == Cardinality({i \in 1..Len(bs) : bs[i].caught})

\* C1: each ball adds to the score at most once. In every reachable state the
\* score is 10 times the number of balls whose caught flag was ever set, every
\* such ball is still stored, and no step lowers the score.
C1_ScoredOncePerBall ==
  /\ [](score = CatchPoints * everCaught /\ everCaught = CaughtCount(balls))
  /\ [][score' >= score]_vars

\* C1 witness: check_catches has run again, in a later iteration, on a ball it
\* had caught in the iteration that spawned it, with the ball still in a hand.
C1_Witness ==
  /\ pc = "advance"
  /\ Len(balls) = 2
  /\ balls[1].caught
  /\ balls[1].y4 = 0
  /\ \E h \in HandRects : InteriorOverlap(BallRect(balls[1]), h)
  /\ score = CatchPoints

\* C2 as stated: after check_catches, a ball whose bounding box touches a
\* hand hitbox without interior overlap is caught.
C2_TouchingIsCaught ==
  pc = "advance" =>
    \A i \in 1..Len(balls) :
      (\E h \in HandRects : TouchOnly(BallRect(balls[i]), h)) => balls[i].caught

\* C2 amended: check_catches marks caught exactly the non-caught balls whose
\* bounding box has interior points in common with a hand hitbox, adding 10
\* for each; a ball that only touches a hitbox is left as it was.
C2_OverlapIsCaught ==
  [][pc = "update" /\ pc' = "advance" =>
       /\ Len(balls') = Len(balls)
       /\ \A i \in 1..Len(balls) :
            balls'[i].caught <=>
              \/ balls[i].caught
              \/ InteriorOverlap(BallRect(balls[i]), HandRect(current_left_hand'))
              \/ InteriorOverlap(BallRect(balls[i]), HandRect(current_right_hand'))
       /\ score' = score + CatchPoints * (CaughtCount(balls') - CaughtCount(balls))
    ]_vars

\* C2 witness: after check_catches one ball overlaps a hand and is caught,
\* another touches the same hand and is not.
C2_Witness ==
  /\ pc = "advance"
  /\ \E i, j \in 1..Len(balls), h \in HandRects :
       /\ balls[i].caught
       /\ InteriorOverlap(BallRect(balls[i]), h)
       /\ ~balls[j].caught
       /\ TouchOnly(BallRect(balls[j]), h)
  /\ score = CatchPoints

InLoop == pc \in {"loop", "poll", "readline", "update", "advance"}

\* C3 as stated: whatever the producer does, and with no quit request, the
\* loop leaves its running phase only once elapsed time has reached
\* game_duration, and the match then finishes: end screen, cleanup, terminated.
C3_MatchRunsToDurationAndEnds ==
  /\ [](~InLoop => Elapsed >= game_duration)
  /\ <>(pc = "done")

\* C4: a one-second match whose pose source never returns a frame ticks
\* through the full second and terminates with score 0.
C4_NoFrameMatchTerminates ==
  /\ [](~keypoints.frame)
  /\ <>[](pc = "done" /\ score = 0 /\ Elapsed >= game_duration)

\* C4 witness: the match has terminated after the full duration, having
\* polled a producer that gave no frame, with a ball spawned and not caught.
C4_Witness ==
  /\ pc = "done"
  /\ Elapsed >= game_duration
  /\ game_duration = Res
  /\ ~keypoints.frame
  /\ balls # << >>
  /\ score = 0

\* C5: a get_keypoints call that begins after the producer process has exited
\* returns None and raises nothing, however often it is repeated.
C5_NoFrameAfterExit ==
  pollInfo.sawExit => keypoints = None /\ ~pollInfo.raised

\* C5 witness: the second call after the producer exited has returned None.
C5_Witness ==
  /\ pc = "update"
  /\ pollInfo.sawExit
  /\ pollInfo.exitPolls = 2
  /\ keypoints = None

\* C6: a call that reads a malformed line returns None without raising, and
\* the stream goes on: a call that reads a record with poses returns its
\* keypoints, also after malformed lines were read.
C6_MalformedIsSkipped ==
  /\ ~pollInfo.raised
  /\ pollInfo.took /\ pollInfo.line \in {"garbage", "badstruct"}
       => keypoints = None
  /\ pollInfo.took /\ pollInfo.line = "poses"
       => keypoints.frame /\ Len(keypoints.kps) = Len(pollInfo.raw)

\* C6 witness: a call has returned a frame after an earlier call read a
\* malformed line.
C6_Witness ==
  /\ pc = "update"
  /\ pollInfo.afterMalformed
  /\ pollInfo.took
  /\ pollInfo.line = "poses"
  /\ keypoints.frame

\* C7 as stated: the record a tick uses is the most recently written one, and
\* no older record stays behind to be used by a later tick, so a call that
\* takes a line leaves no complete line unread.
C7_TickUsesNewestRecord ==
  pollInfo.took => pollInfo.left = 0

PollOncePerIteration ==
  /\ pc = "poll" => pollsInTick = 0
  /\ pc \in {"readline", "update", "advance"} => pollsInTick = 1
  /\ pc \notin {"poll", "readline", "update", "advance"} /\ now > start_time
       => pollsInTick = 1

\* C8 as stated: every iteration calls get_keypoints exactly once, and no
\* call removes more than one record from the producer's output.
C8_OnePollOneRecord ==
  /\ PollOncePerIteration
  /\ pollInfo.consumed <= 1

\* C8 amended: every iteration calls get_keypoints exactly once; a call that
\* finds the producer running removes at most one record from its output (the
\* call that finds it exited reads and discards all that is left).
C8_OnePollOneRecordWhileRunning ==
  /\ PollOncePerIteration
  /\ ~pollInfo.sawExit => pollInfo.consumed <= 1

\* C8 witness: the iteration that handled a quit request has still polled
\* once, taking one record and leaving another unread.
C8_Witness ==
  /\ pc = "final"
  /\ quitSeen
  /\ pollsInTick = 1
  /\ pollInfo.took
  /\ pollInfo.consumed = 1
  /\ pollInfo.left = 1

\* C9 as stated: however the loop ends, cleanup has run exactly once and the
\* producer is not left running.
C9_EveryExitRunsCleanupOnce ==
  pc \in {"done", "crashed"} => cleanups = 1 /\ proc # "running"

\* C10: cleanup requests termination first, kills only after the grace
\* period has passed with the producer still running, and returns only when
\* the producer has exited.
C10_TerminateWaitKill ==
  /\ cleanupLog # << >> => cleanupLog[1].ev = "terminate"
  /\ \A i \in 1..Len(cleanupLog) :
       cleanupLog[i].ev = "kill" =>
         /\ i = 2
         /\ cleanupLog[i].proc = "running"
         /\ cleanupLog[i].at - cleanupLog[1].at = GraceSeconds * Res
  /\ pc = "done" /\ ~use_mock =>
       /\ proc = "exited"
       /\ cleanupLog[Len(cleanupLog)].ev = "returned"

\* C10 witness: cleanup has returned after a graceful request the producer
\* ignored and a kill.
C10_Witness ==
  /\ pc = "done"
  /\ Len(cleanupLog) = 3
  /\ cleanupLog[2].ev = "kill"
  /\ proc = "exited"

\* C11: cleanup is safe to call again and to call on a producer that exited
\* on its own. No call raises, every call returns with the producer not
\* running, and a call after the first changes nothing about the producer: it
\* finds it exited, leaves it so and sends no kill.
C11_CleanupIdempotent ==
  /\ [](pc # "crashed")
  /\ [](pc = "done" => proc # "running")
  /\ [][cleanups' >= 2 =>
         /\ proc' = proc
         /\ \A i \in 1..Len(cleanupLog') :
              i > Len(cleanupLog) => cleanupLog'[i].ev # "kill"]_vars

\* C11 witness: a second call has returned, the first call having found the
\* producer already exited.
C11_Witness ==
  /\ pc = "done"
  /\ cleanups = 2
  /\ cleanupLog # << >>
  /\ cleanupLog[1].proc = "exited"
  /\ cleanupLog[Len(cleanupLog)].ev = "returned"
  /\ proc = "exited"

\* C12 as stated: every frame get_keypoints returns has exactly 17 keypoints.
C12_FramesHaveSeventeen ==
  keypoints.frame => Len(keypoints.kps) = NumKeypoints

\* C13: a frame too short to hold the wrist keypoints is treated as
\* insufficient data. The iteration raises nothing and goes on, and it leaves
\* both hands and the time of the last pose as they were.
C13_ShortFrameIsSkipped ==
  [][pc = "update" /\ keypoints.frame /\ Len(keypoints.kps) < RightWrist + 1 =>
       /\ pc' = "advance"
       /\ current_left_hand' = current_left_hand
       /\ current_right_hand' = current_right_hand
       /\ last_pose_time' = last_pose_time]_vars

\* C13 witness: an iteration has gone past a ten-keypoint frame with the hands
\* where an earlier full frame had put them.
C13_Witness ==
  /\ pc = "advance"
  /\ keypoints.frame
  /\ Len(keypoints.kps) = RightWrist
  /\ current_left_hand # default_left_hand

\* C14 as stated: an iteration draws the advisory exactly when it got no usable
\* frame and more than 5 seconds have passed since the last one.
C14_AdvisoryAfterFiveSeconds ==
  pc = "advance" =>
    (advisory <=> /\ ~UsableFrame(keypoints)
                  /\ current_time - last_pose_time > AdvisorySeconds * Res)

\* C14 amended: an iteration draws the advisory exactly when it got no usable
\* frame, more than 5 seconds have passed since the last one, and the help
\* display has not been switched off with the H key.
C14_AdvisoryUnlessHidden ==
  pc = "advance" =>
    (advisory <=> /\ ~UsableFrame(keypoints)
                  /\ current_time - last_pose_time > AdvisorySeconds * Res
                  /\ show_help)

\* C14 witness: the advisory is drawn in an iteration that got no frame, more
\* than 5 seconds after the last pose.
C14_Witness ==
  /\ pc = "advance"
  /\ advisory
  /\ ~keypoints.frame
  /\ current_time - last_pose_time > AdvisorySeconds * Res

\* a point of the camera picture scaled once to the game window
ScaledOnce(kp) ==
  << TruncDiv(kp[1] * screen_width, CameraSize),
     TruncDiv(kp[2] * screen_height, CameraSize) >>

InCamera(kp) == kp[1] \in 0..CameraSize /\ kp[2] \in 0..CameraSize

InPlayArea(pos) == pos[1] \in 0..screen_width /\ pos[2] \in 0..screen_height

\* C15 as stated: after an iteration that used a frame, each hand is at the
\* wrist keypoint of the record scaled once to the game window, and a wrist
\* inside the camera picture gives a hand inside the play area.
C15_WristScaledOnce ==
  pc = "advance" /\ Len(pollInfo.raw) >= MinKeypoints =>
    LET lw == pollInfo.raw[LeftWrist + 1]
        rw == pollInfo.raw[RightWrist + 1]
    IN  /\ current_left_hand = ScaledOnce(lw)
        /\ current_right_hand = ScaledOnce(rw)
        /\ InCamera(lw) => InPlayArea(current_left_hand)
        /\ InCamera(rw) => InPlayArea(current_right_hand)

\* C16 as stated, for the balls that were caught: each has been removed from
\* the balls list by the time the match has terminated.
C16_CaughtBallsAreDestroyed ==
  pc = "done" => CaughtCount(balls) = 0

\* the terminal condition has fired: a quit event was handled, or the elapsed
\* time an iteration computed has reached game_duration
Terminal == quitSeen \/ TimeUp

\* C17 as stated: once the terminal condition has fired, no step changes the
\* score, the balls or the hand positions.
C17_ReadOnlyAfterTerminal ==
  [][Terminal =>
       /\ score' = score
       /\ balls' = balls
       /\ current_left_hand' = current_left_hand
       /\ current_right_hand' = current_right_hand]_vars

\* C18: ball_interval stays between 1.0 and 2.0 seconds and no step raises
\* it; a ball is spawned only by an iteration that finds more than
\* ball_interval elapsed since last_ball_time, which then spawns exactly one
\* ball and restarts the interval; nothing else touches either.
C18_SpawnInterval ==
  /\ [](/\ IntervalFloor * Res * IntervalSlope <= ball_interval
        /\ ball_interval <= IntervalStart * Res * IntervalSlope)
  /\ [][/\ ball_interval' <= ball_interval
        /\ Len(balls') > Len(balls) =>
             /\ Len(balls') = Len(balls) + 1
             /\ (current_time' - last_ball_time) * IntervalSlope > ball_interval
             /\ last_ball_time' = current_time'
        /\ Len(balls') <= Len(balls) =>
             /\ last_ball_time' = last_ball_time
             /\ ball_interval' = ball_interval]_vars

\* C18 witness: a second ball has been spawned, with a shorter interval than
\* the first.
C18_Witness ==
  /\ pc = "poll"
  /\ Len(balls) = 2
  /\ last_ball_time = current_time
  /\ ball_interval < IntervalStart * Res * IntervalSlope

\* C19: an iteration in which get_keypoints returned None leaves both hands
\* where they were; as long as no frame was ever returned they are at their
\* default positions; and once a call has found the producer exited, no step
\* moves them.
C19_HandsHeldWithoutFrame ==
  /\ [](~pollInfo.everFrame =>
          /\ current_left_hand = default_left_hand
          /\ current_right_hand = default_right_hand)
  /\ [][(pc = "update" /\ ~keypoints.frame) \/ pollInfo.exitPolls >= 1 =>
          /\ current_left_hand' = current_left_hand
          /\ current_right_hand' = current_right_hand]_vars

\* C19 witness: a frame had moved the hands, the producer exited, and an
\* iteration that got None from it has left the hands where the frame put them.
C19_Witness ==
  /\ pc = "advance"
  /\ pollInfo.everFrame
  /\ pollInfo.exitPolls >= 1
  /\ ~keypoints.frame
  /\ current_left_hand # default_left_hand

\* the phase of the game loop
Phase ==
  CASE InLoop -> "Running"
    [] pc \in {"final", "cleanup", "wait", "wait_kill"} -> "Finalizing"
    [] pc = "done" -> "Terminated"
    [] OTHER -> "Aborted"

\* C20 as stated: the phase changes only from Running to Finalizing and from
\* Finalizing to Terminated; Running is left only when the elapsed time has
\* reached game_duration or a quit event was handled; get_keypoints is called
\* only while Running and before any cleanup; cleanup is entered only after
\* the end screen.
C20_PhaseOrder ==
  [][/\ Phase' # Phase =>
          << Phase, Phase' >> \in {<< "Running", "Finalizing" >>,
                                   << "Finalizing", "Terminated" >>}
     /\ Phase = "Running" /\ Phase' # "Running" => TimeUp \/ quitSeen
     /\ pollsInTick' > pollsInTick => Phase = "Running" /\ cleanups = 0
     /\ cleanups' > cleanups => pc = "cleanup"]_vars

====
